---------------------------- MODULE Spec2Model ----------------------------
(***************************************************************************)
(* A model of nbcli (src/src/nbcli/cli.py, nbcli/utils/formatters.py): the *)
(* transport wrapper, the two pagination loops, the catalog dump, the      *)
(* status and get commands, the path selector and the CSV formatter.       *)
(*                                                                         *)
(* Python strings are sequences of one-character strings, so that          *)
(* iteration, concatenation and ordering are computed rather than assumed. *)
(* Python values decoded from JSON are records with one field per possible *)
(* payload kind, so that any two values can be compared.                   *)
(***************************************************************************)
EXTENDS Integers, Sequences, FiniteSets, TLC

(***************************************************************************)
(* Bounds of the model.                                                    *)
(***************************************************************************)
\* The most GETs one pagination loop issues before the model stops following it.
MaxRequests == 4

(***************************************************************************)
(* Python values.                                                          *)
(***************************************************************************)
PyNone == [type |-> "NoneType", s |-> <<>>, n |-> 0, items |-> <<>>]

PyStr(chars) == [type |-> "str", s |-> chars, n |-> 0, items |-> <<>>]

PyInt(i) == [type |-> "int", s |-> <<>>, n |-> i, items |-> <<>>]

PyList(elems) == [type |-> "list", s |-> <<>>, n |-> 0, items |-> elems]

\* A dict keeps its entries in insertion (document) order: a sequence of KV.
PyDict(kvs) == [type |-> "dict", s |-> <<>>, n |-> 0, items |-> kvs]

KV(key, value) == [k |-> key, v |-> value]

\* isinstance(v, dict)
IsDict(v) == v.type = "dict"

\* key in d
HasKey(d, key) == \E i \in 1..Len(d.items) : d.items[i].k = key

\* d.get(key): the value under key, None when absent.
Get(d, key) ==
    IF HasKey(d, key)
    THEN d.items[CHOOSE i \in 1..Len(d.items) : d.items[i].k = key].v
    ELSE PyNone

\* Python truthiness, as `while next_url:` applies it.
Truthy(v) ==
    CASE v.type = "NoneType" -> FALSE
      [] v.type = "str" -> Len(v.s) > 0
      [] v.type = "int" -> v.n # 0
      [] OTHER -> Len(v.items) > 0

\* Whether list.extend(v) accepts v: None and numbers raise TypeError.
IsIterable(v) == v.type \in {"list", "str", "dict"}

\* What iterating v yields: a list's elements, a string's characters, a
\* dict's keys.
Iterate(v) ==
    CASE v.type = "list" -> v.items
      [] v.type = "str" -> [i \in 1..Len(v.s) |-> PyStr(<<v.s[i]>>)]
      [] v.type = "dict" -> [i \in 1..Len(v.items) |-> PyStr(v.items[i].k)]
      [] OTHER -> <<>>

(***************************************************************************)
(* Strings of the model.                                                   *)
(***************************************************************************)
K_results == <<"r", "e", "s", "u", "l", "t", "s">>

K_next == <<"n", "e", "x", "t">>

K_count == <<"c", "o", "u", "n", "t">>

K_error == <<"e", "r", "r", "o", "r">>

K_status == <<"s", "t", "a", "t", "u", "s">>


U1 == <<"u", "1">>

U2 == <<"u", "2">>

U3 == <<"u", "3">>

T_html == <<"<", "h", "t", "m", "l", ">">>

T_nf == <<"n", "f">>

T_err == <<"e", "r", "r">>

T_json == <<"{", "}">>

R_OK == <<"O", "K">>

R_NotFound == <<"N", "o", "t", " ", "F", "o", "u", "n", "d">>

R_ServerError == <<"S", "e", "r", "v", "e", "r", " ", "E", "r", "r", "o", "r">>

(***************************************************************************)
(* Python string operations, on sequences of characters.                   *)
(***************************************************************************)
\* The characters of the model in code-point order.
Ascii ==
    <<" ", "#", "-", ".", "/", "0", "1", "2", "3", "4", "5", "6", "7",
      "8", "9", ":", "<", "=", ">", "?", "A", "B", "C", "D", "E", "F",
      "G", "H", "I", "J", "K", "L", "M", "N", "O", "P", "Q", "R", "S",
      "T", "U", "V", "W", "X", "Y", "Z", "_", "a", "b", "c", "d", "e",
      "f", "g", "h", "i", "j", "k", "l", "m", "n", "o", "p", "q", "r",
      "s", "t", "u", "v", "w", "x", "y", "z", "{", "}">>

\* ord(c), up to an order-preserving renumbering.
Ord(c) == CHOOSE i \in 1..Len(Ascii) : Ascii[i] = c

\* a < b for Python strings: lexicographic by code point.
StrLess(a, b) ==
    \E i \in 1..Len(b) :
        /\ Len(a) >= i - 1
        /\ \A j \in 1..(i - 1) : a[j] = b[j]
        /\ (Len(a) = i - 1 \/ Ord(a[i]) < Ord(b[i]))

\* s.startswith(prefix), s.endswith(suffix)
StartsWith(str, prefix) ==
    Len(str) >= Len(prefix) /\ SubSeq(str, 1, Len(prefix)) = prefix

EndsWith(str, suffix) ==
    /\ Len(str) >= Len(suffix)
    /\ SubSeq(str, Len(str) - Len(suffix) + 1, Len(str)) = suffix

\* s.rstrip(c), s.lstrip(c) for one character c.
RECURSIVE RStrip(_, _)
RStrip(str, c) ==
    IF str # <<>> /\ str[Len(str)] = c
    THEN RStrip(SubSeq(str, 1, Len(str) - 1), c)
    ELSE str

RECURSIVE LStrip(_, _)
LStrip(str, c) ==
    IF str # <<>> /\ str[1] = c THEN LStrip(Tail(str), c) ELSE str

\* The entries seq, ascending by key, with entry item put in its place.
RECURSIVE InsertSorted(_, _)
InsertSorted(seq, item) ==
    IF seq = <<>> THEN <<item>>
    ELSE IF StrLess(item.k, Head(seq).k) THEN <<item>> \o seq
    ELSE <<Head(seq)>> \o InsertSorted(Tail(seq), item)

\* The entries seq sorted by key.
RECURSIVE SortedByKey(_)
SortedByKey(seq) ==
    IF seq = <<>> THEN <<>>
    ELSE InsertSorted(SortedByKey(SubSeq(seq, 1, Len(seq) - 1)), seq[Len(seq)])

\* sorted(d.items()): the entries by key (the keys of a dict are distinct).
SortedItems(d) == SortedByKey(d.items)

\* sorted(d.keys())
SortedKeys(d) == [i \in 1..Len(d.items) |-> SortedItems(d)[i].k]

\* d[key] = value: in place when the key is there, at the end when it is new.
SetItem(d, key, value) ==
    IF HasKey(d, key)
    THEN PyDict([i \in 1..Len(d.items) |->
                    IF d.items[i].k = key THEN KV(key, value) ELSE d.items[i]])
    ELSE PyDict(Append(d.items, KV(key, value)))

(***************************************************************************)
(* URL construction.                                                       *)
(***************************************************************************)
S_http == <<"h", "t", "t", "p", ":", "/", "/">>

S_https == <<"h", "t", "t", "p", "s", ":", "/", "/">>

S_api == <<"a", "p", "i", "/">>

\* build_url: an absolute URL as it is, a path under <base>/api/.
build_url(base_url, path) ==
    IF StartsWith(path, S_http) \/ StartsWith(path, S_https) THEN path
    ELSE LET base == RStrip(base_url, "/")
             cleaned == LStrip(path, "/")
         IN  IF StartsWith(cleaned, S_api)
             THEN base \o <<"/">> \o cleaned
             ELSE base \o <<"/">> \o S_api \o cleaned

\* ensure_trailing_slash: a "/" at the end of the URL's path, which ends where
\* the query ("?") or the fragment ("#") begins.  (An empty path gets "/" too.)
ensure_trailing_slash(url) ==
    LET marks == {i \in 1..Len(url) : url[i] \in {"?", "#"}}
        cut == IF marks = {} THEN Len(url) + 1
               ELSE CHOOSE i \in marks : \A j \in marks : i <= j
        head == SubSeq(url, 1, cut - 1)
        rest == SubSeq(url, cut, Len(url))
    IN  IF EndsWith(head, <<"/">>) THEN url ELSE head \o <<"/">> \o rest

\* join_url(base, path)
join_url(base, path) == RStrip(base, "/") \o <<"/">> \o LStrip(path, "/")

(***************************************************************************)
(* HTTP: what requests.request gives back for one GET.  kind "Response" is *)
(* a response object (status_code, reason, text, and what resp.json()      *)
(* decodes text to, JsonInvalid when it raises ValueError); the other      *)
(* kinds are the exception classes requests raises instead.                *)
(***************************************************************************)
JsonInvalid == [type |-> "ValueError", s |-> <<>>, n |-> 0, items |-> <<>>]

Response(status, reason, text, json) ==
    [kind |-> "Response", status_code |-> status, reason |-> reason,
     text |-> text, json |-> json]

Raises(exception) ==
    [kind |-> exception, status_code |-> 0, reason |-> <<>>, text |-> <<>>,
     json |-> JsonInvalid]

Timeout == Raises("Timeout")

ConnectionError == Raises("ConnectionError")

RequestException == Raises("RequestException")

\* A 2xx response whose body decodes to payload.
Json200(payload) == Response(200, R_OK, T_json, payload)

\* A 2xx response whose body is not JSON.
Html200 == Response(200, R_OK, T_html, JsonInvalid)

NotFound404 == Response(404, R_NotFound, T_nf, JsonInvalid)

Error500 == Response(500, R_ServerError, T_err, JsonInvalid)

\* resp.ok of requests: the status is below 400.  The library follows
\* redirects itself, so the final responses of the model are 2xx, 4xx or 5xx.
Ok(resp) == resp.status_code < 400

\* A list-shaped page: {"results": [...], "next": <url or null>}.
Page(elems, next) ==
    PyDict(<<KV(K_results, PyList(elems)), KV(K_next, next)>>)

A == PyStr(<<"a">>)

B == PyStr(<<"b">>)

\* The payloads a paginated endpoint of the model may answer with.
ListPages ==
    {Page(elems, next) :
        elems \in {<<A>>, <<B, A>>},
        next \in {PyNone, PyStr(U1), PyStr(U2), PyStr(U3)}}

\* Objects whose "results" is present and is not an array.
OddPages ==
    {PyDict(<<KV(K_results, r), KV(K_next, PyNone)>>) :
        r \in {PyNone, PyStr(<<"a", "b">>), PyInt(5),
               PyDict(<<KV(<<"k">>, PyInt(1))>>)}}

\* Payloads without a "results" key: an object and an array.
OpaquePayloads == {PyDict(<<KV(<<"i", "d">>, PyInt(1))>>), PyList(<<A>>)}

PageResponses ==
    {Timeout, ConnectionError, RequestException, NotFound404, Error500, Html200}
    \cup {Json200(p) : p \in ListPages \cup OddPages \cup OpaquePayloads}

Urls == {U1, U2, U3}

\* The caller's query params of the model: {"q": "x"}.
Params1 == PyDict(<<KV(<<"q">>, PyStr(<<"x">>))>>)


(***************************************************************************)
(* State.                                                                  *)
(***************************************************************************)
VARIABLES
    server,        \* url -> the set of answers the server may give to a GET of it
    cmd,           \* the entry point under way
    params,        \* the caller's query params
    pc,            \* "running", then "returned", "exited" (sys.exit) or "raised"
    next_url,      \* request_all / request_all_safe: the URL to fetch next
    first_params,  \* request_all: the params the next GET carries
    results,       \* request_all / request_all_safe: the accumulator
    retval,        \* the value the call returned
    exit_code,     \* the process's exit status, NoExit while it runs
    exc,           \* the exception that escaped, "" when none
    stdout,
    stderr,
    sent,          \* the GETs issued so far, in order, each with its answer
    has_config,    \* dump: NETBOX_URL and NETBOX_TOKEN are both set
    fmt,           \* dump: the output format selected on the command line
    include_all,   \* dump: --include-all
    dpc,           \* dump: where main stands
    dump_fmt,      \* dump: the format handed to the serializer
    hostname,      \* dump: status.get("hostname", "unknown")
    apps_left,     \* dump: the sorted root entries still to visit
    eps_left,      \* dump: the sorted endpoints of the application still to visit
    cur_app,       \* dump: the application being visited (name, url)
    cur_ep,        \* dump: the endpoint being aggregated
    dump,          \* dump: app -> endpoint -> contents
    file,          \* dump: the output file
    args,          \* the command line: path words, --path, --param, --filter, token
    rendered       \* what output_payload has put on stdout, one entry per call

pageVars ==
    <<server, cmd, params, pc, next_url, first_params, results, retval,
      exit_code, exc, stdout, stderr, sent>>

dumpVars ==
    <<has_config, fmt, include_all, dpc, dump_fmt, hostname, apps_left, eps_left,
      cur_app, cur_ep, dump, file>>

cliVars == <<args, rendered>>

vars == <<pageVars, dumpVars, cliVars>>

NoExit == -1

\* No application yet.
NoApp == KV(<<>>, PyNone)

\* The output file before open(filename, "w").
\* A command line with no path, no selector, no key=value items.
NoArgs ==
    [path |-> <<>>, select_path |-> PyNone, param |-> <<>>, filter |-> <<>>,
     token |-> <<>>, payload |-> PyNone]

NoFile == [written |-> FALSE, content |-> [format |-> "", payload |-> PyNone]]

\* One printed line: a format of the source, with its number and its text.
Line(msg, code, arg) == [msg |-> msg, code |-> code, arg |-> arg]

(***************************************************************************)
(* What one call or one loop iteration does next: leave the process        *)
(* (sys.exit), let an exception escape, return a value, or go round again. *)
(***************************************************************************)
Exits(code, out, err) ==
    [ctl |-> "exit", code |-> code, out |-> out, err |-> err, exc |-> "",
     value |-> PyNone, results |-> <<>>, next_url |-> PyNone]

Throws(exception) ==
    [ctl |-> "raise", code |-> 1, out |-> <<>>,
     err |-> <<Line("Traceback", 0, <<>>)>>, exc |-> exception,
     value |-> PyNone, results |-> <<>>, next_url |-> PyNone]

Returns(value) ==
    [ctl |-> "return", code |-> NoExit, out |-> <<>>, err |-> <<>>, exc |-> "",
     value |-> value, results |-> <<>>, next_url |-> PyNone]

Continues(acc, next) ==
    [ctl |-> "continue", code |-> NoExit, out |-> <<>>, err |-> <<>>, exc |-> "",
     value |-> PyNone, results |-> acc, next_url |-> next]

\* The answers the server may give to a GET of url; a URL it does not know is
\* answered 404.
Lookup(url) == IF url \in DOMAIN server THEN server[url] ELSE {NotFound404}

\* request_with_errors: the response, or exit 3 on any exception of requests.
request_with_errors(resp) ==
    CASE resp.kind = "Timeout" ->
            Exits(3, <<>>, <<Line("Request timed out.", 0, <<>>)>>)
      [] resp.kind = "ConnectionError" ->
            Exits(3, <<>>, <<Line("Connection failed.", 0, <<>>)>>)
      [] resp.kind = "RequestException" ->
            Exits(3, <<>>, <<Line("Request failed: {exc}", 0, <<>>)>>)
      [] OTHER -> Returns(PyNone)

\* The two stderr lines of a non-ok response.
HttpErrorLines(resp) ==
    <<Line("{status_code} {reason}", resp.status_code, resp.reason),
      Line("{text}", 0, resp.text)>>

\* request_json: the decoded body; exit 1 when not ok; the raw body on stdout
\* and exit 0 when the body is not JSON.
request_json(resp) ==
    LET r == request_with_errors(resp) IN
    IF r.ctl = "exit" THEN r
    ELSE IF ~Ok(resp) THEN Exits(1, <<>>, HttpErrorLines(resp))
    ELSE IF resp.json = JsonInvalid
         THEN Exits(0, <<Line("{text}", 0, resp.text)>>, <<>>)
    ELSE Returns(resp.json)

\* not isinstance(payload, dict) or "results" not in payload
IsOpaque(payload) == ~IsDict(payload) \/ ~HasKey(payload, K_results)

\* A loop that puts each new page in front of the accumulator.
Extend_Prepend(acc, payload) == Iterate(Get(payload, K_results)) \o acc

\* results.extend(payload.get("results", [])): TypeError when it is not iterable.
Extend(acc, payload) == acc \o Iterate(Get(payload, K_results))

\* {"count": len(results), "results": results}
Aggregated(acc) ==
    PyDict(<<KV(K_count, PyInt(Len(acc))), KV(K_results, PyList(acc))>>)

\* {"error": resp.text, "status": resp.status_code}
ErrorResult(resp) ==
    PyDict(<<KV(K_error, PyStr(resp.text)), KV(K_status, PyInt(resp.status_code))>>)

\* A loop that stops following `next` at a URL it has already requested.
AccumulatePage_StopOnRevisit(payload, acc) ==
    LET seen == {sent[i].url : i \in 1..Len(sent)} \cup {next_url.s}
        next == Get(payload, K_next)
    IN  IF IsOpaque(payload) THEN Returns(payload)
        ELSE IF ~IsIterable(Get(payload, K_results)) THEN Throws("TypeError")
        ELSE Continues(Extend(acc, payload),
                       IF next.s \in seen THEN PyNone ELSE next)

\* payload handling common to both loops (lines 190-193 and 213-216).
AccumulatePage(payload, acc) ==
    IF IsOpaque(payload) THEN Returns(payload)
    ELSE IF ~IsIterable(Get(payload, K_results)) THEN Throws("TypeError")
    ELSE Continues(Extend(acc, payload), Get(payload, K_next))

\* One iteration of request_all's loop on the response resp.
request_all_page(resp, acc) ==
    LET r == request_with_errors(resp) IN
    IF r.ctl = "exit" THEN r
    ELSE IF ~Ok(resp) THEN Exits(1, <<>>, HttpErrorLines(resp))
    ELSE IF resp.json = JsonInvalid THEN Throws("ValueError")
    ELSE AccumulatePage(resp.json, acc)

\* A capturing loop that treats a non-ok page as the fail-fast loop does.
request_all_safe_page_FailFast(resp, acc) == request_all_page(resp, acc)

\* One iteration of request_all_safe's loop on the response resp.
request_all_safe_page(resp, acc) ==
    LET r == request_with_errors(resp) IN
    IF r.ctl = "exit" THEN r
    ELSE IF ~Ok(resp) THEN Returns(ErrorResult(resp))
    ELSE IF resp.json = JsonInvalid THEN Returns(ErrorResult(resp))
    ELSE AccumulatePage(resp.json, acc)

\* A loop that forgets to clear the params.
ParamsAfterFirst_Resent == first_params

\* first_params = None after the first GET (line 184).
ParamsAfterFirst == PyNone


(***************************************************************************)
(* The effect of an outcome on the running call.  A loop that continues    *)
(* with a falsy next_url leaves `while next_url:` and returns the          *)
(* aggregate (lines 194 and 217).                                          *)
(***************************************************************************)
Take(o) ==
    /\ pc' = CASE o.ctl = "exit" -> "exited"
               [] o.ctl = "raise" -> "raised"
               [] o.ctl = "return" -> "returned"
               [] OTHER -> IF Truthy(o.next_url) THEN "running" ELSE "returned"
    /\ exit_code' = o.code
    /\ exc' = o.exc
    /\ stdout' = stdout \o o.out
    /\ stderr' = stderr \o o.err
    /\ retval' = CASE o.ctl = "return" -> o.value
                   [] o.ctl = "continue" /\ ~Truthy(o.next_url) -> Aggregated(o.results)
                   [] OTHER -> retval
    /\ results' = IF o.ctl = "continue" THEN o.results ELSE results
    /\ next_url' = IF o.ctl = "continue" THEN o.next_url ELSE next_url

Get_(url, query, resp) == [url |-> url, params |-> query, resp |-> resp]

(***************************************************************************)
(* The three calls on their own, against a server that answers each URL    *)
(* in one fixed way.                                                       *)
(***************************************************************************)
PageInit ==
    /\ server \in [Urls -> {{r} : r \in PageResponses}]
    /\ cmd \in {"request_json", "request_all", "request_all_safe"}
    /\ params = IF cmd = "request_all_safe" THEN PyNone ELSE Params1
    /\ pc = "running"
    /\ next_url = PyStr(U1)
    /\ first_params = params
    /\ results = <<>>
    /\ retval = PyNone
    /\ exit_code = NoExit
    /\ exc = ""
    /\ stdout = <<>>
    /\ stderr = <<>>
    /\ sent = <<>>
    /\ has_config = TRUE
    /\ fmt = "pretty"
    /\ include_all = FALSE
    /\ dpc = "none"
    /\ dump_fmt = ""
    /\ hostname = PyNone
    /\ apps_left = <<>>
    /\ eps_left = <<>>
    /\ cur_app = NoApp
    /\ cur_ep = <<>>
    /\ dump = PyDict(<<>>)
    /\ file = NoFile
    /\ args = NoArgs
    /\ rendered = <<>>

\* request_json(method, url, token, params, timeout, verify)
RequestJson ==
    /\ cmd = "request_json"
    /\ pc = "running"
    /\ \E resp \in Lookup(next_url.s) :
          /\ sent' = Append(sent, Get_(next_url.s, params, resp))
          /\ Take(request_json(resp))
    /\ UNCHANGED <<server, cmd, params, first_params>>
    /\ UNCHANGED <<dumpVars, cliVars>>

\* One turn of request_all's loop: the GET and what follows it.
RequestAll ==
    /\ cmd = "request_all"
    /\ pc = "running"
    /\ Len(sent) < MaxRequests
    /\ \E resp \in Lookup(next_url.s) :
          /\ sent' = Append(sent, Get_(next_url.s, first_params, resp))
          /\ first_params' = ParamsAfterFirst
          /\ Take(request_all_page(resp, results))
    /\ UNCHANGED <<server, cmd, params>>
    /\ UNCHANGED <<dumpVars, cliVars>>

\* One turn of request_all_safe's loop.
RequestAllSafe ==
    /\ cmd = "request_all_safe"
    /\ pc = "running"
    /\ Len(sent) < MaxRequests
    /\ \E resp \in Lookup(next_url.s) :
          /\ sent' = Append(sent, Get_(next_url.s, PyNone, resp))
          /\ Take(request_all_safe_page(resp, results))
    /\ UNCHANGED <<server, cmd, params, first_params>>
    /\ UNCHANGED <<dumpVars, cliVars>>

PageNext == RequestJson \/ RequestAll \/ RequestAllSafe

PageSpec == PageInit /\ [][PageNext]_vars

\* The loops run without pause: a turn that can be taken is taken.
FairPageSpec == PageSpec /\ WF_vars(PageNext)


(***************************************************************************)
(* The dump command: main's dump branch, build_dump_payload and            *)
(* dump_all_objects_filtered, against a small NetBox.                      *)
(***************************************************************************)
BaseUrl == <<"h", "t", "t", "p", ":", "/", "/", "n", "b">>

S_status == K_status

S_hostname == <<"h", "o", "s", "t", "n", "a", "m", "e">>

S_unknown == <<"u", "n", "k", "n", "o", "w", "n">>

S_core == <<"c", "o", "r", "e">>

S_dcim == <<"d", "c", "i", "m">>

S_jobs == <<"j", "o", "b", "s">>

S_object_changes == <<"o", "b", "j", "e", "c", "t", "-", "c", "h", "a", "n", "g", "e", "s">>

S_data_files == <<"d", "a", "t", "a", "-", "f", "i", "l", "e", "s">>

S_sites == <<"s", "i", "t", "e", "s">>

\* The server's own URLs, written out.
SrvApi == <<"h", "t", "t", "p", ":", "/", "/", "n", "b", "/", "a", "p", "i", "/">>

SrvStatus == SrvApi \o S_status \o <<"/">>

SrvCore == SrvApi \o S_core \o <<"/">>

SrvDcim == SrvApi \o S_dcim \o <<"/">>

SrvEndpoint(app, endpoint) == SrvApi \o app \o <<"/">> \o endpoint \o <<"/">>

SrvPage2(app, endpoint) == SrvEndpoint(app, endpoint) \o <<"?", "p", "=", "2">>

\* The API root: application -> URL, with the reserved `status` entry.  The
\* server lists them in no particular order.
RootFull ==
    PyDict(<<KV(S_dcim, PyStr(SrvDcim)), KV(S_status, PyStr(SrvStatus)),
             KV(S_core, PyStr(SrvCore))>>)

RootCoreOnly == PyDict(<<KV(S_core, PyStr(SrvCore))>>)

\* An application's listing: endpoint -> URL.
CoreListing ==
    PyDict(<<KV(S_object_changes, PyStr(SrvEndpoint(S_core, S_object_changes))),
             KV(S_data_files, PyStr(SrvEndpoint(S_core, S_data_files))),
             KV(S_jobs, PyStr(SrvEndpoint(S_core, S_jobs)))>>)

DcimListing == PyDict(<<KV(S_sites, PyStr(SrvEndpoint(S_dcim, S_sites)))>>)

StatusPayload == PyDict(<<KV(S_hostname, PyStr(<<"n", "b", "1">>))>>)

\* What the NetBox of the model may answer, URL by URL.
DumpServer ==
    (SrvStatus :> {Json200(StatusPayload), Error500, Timeout, Html200})
    @@ (SrvApi :> {Json200(RootFull), Json200(RootCoreOnly), NotFound404,
                   ConnectionError})
    @@ (SrvCore :> {Json200(CoreListing), Json200(PyList(<<>>)), Error500})
    @@ (SrvDcim :> {Json200(DcimListing), Timeout})
    @@ (SrvEndpoint(S_core, S_data_files) :>
            {Json200(Page(<<A>>, PyNone)),
             Json200(Page(<<A>>, PyStr(SrvPage2(S_core, S_data_files)))),
             NotFound404, Html200, Timeout})
    @@ (SrvPage2(S_core, S_data_files) :> {Json200(Page(<<B>>, PyNone)), Error500})
    @@ (SrvEndpoint(S_core, S_jobs) :> {Json200(Page(<<B>>, PyNone)), NotFound404})
    @@ (SrvEndpoint(S_core, S_object_changes) :>
            {Json200(Page(<<>>, PyNone)), RequestException})
    @@ (SrvEndpoint(S_dcim, S_sites) :>
            {Json200(Page(<<A, B>>, PyNone)), Error500, ConnectionError})

Formats == {"pretty", "plain", "json", "yaml", "csv"}

\* A dump branch that takes the selected format as it is.
DumpFormat_Identity(f) == f

\* dump_fmt = "yaml" if fmt == "pretty" else fmt (line 512)
DumpFormat(f) == IF f = "pretty" THEN "yaml" ELSE f

\* dump_fmt in ("plain", "csv") (line 513)
DumpFormatRejected(f) == f \in {"plain", "csv"}

\* excluded = {"core/jobs", "core/object-changes"} (line 245)
Excluded ==
    {S_core \o <<"/">> \o S_jobs, S_core \o <<"/">> \o S_object_changes}

\* An inner loop that skips nothing.
Skipped_Never(app, endpoint) == FALSE

\* not include_all and f"{app}/{endpoint}" in excluded (line 253)
Skipped(app, endpoint) ==
    ~include_all /\ (app \o <<"/">> \o endpoint) \in Excluded

\* The root entries from the first one the outer loop visits (lines 246-248).
RECURSIVE SkipApps(_)
SkipApps(entries) ==
    IF entries # <<>> /\ Head(entries).k = S_status
    THEN SkipApps(Tail(entries))
    ELSE entries

\* The endpoints from the first one the inner loop visits (lines 252-254).
RECURSIVE SkipEndpoints(_, _)
SkipEndpoints(app, endpoints) ==
    IF endpoints # <<>> /\ Skipped(app, Head(endpoints))
    THEN SkipEndpoints(app, Tail(endpoints))
    ELSE endpoints

\* Where the two nested loops stand once app's remaining endpoints and the
\* remaining root entries are known: at the next endpoint's first GET, at
\* the next application's listing, or past both loops.
Position(app, endpoints, entries) ==
    LET eps == SkipEndpoints(app.k, endpoints)
        apps == SkipApps(entries)
    IN  IF eps # <<>>
        THEN [dpc |-> "endpoint", cur_app |-> app, cur_ep |-> Head(eps),
              eps_left |-> Tail(eps), apps_left |-> entries,
              next_url |-> PyStr(ensure_trailing_slash(join_url(app.v.s, Head(eps))))]
        ELSE IF apps # <<>>
        THEN [dpc |-> "app", cur_app |-> Head(apps), cur_ep |-> <<>>,
              eps_left |-> <<>>, apps_left |-> Tail(apps), next_url |-> PyNone]
        ELSE [dpc |-> "write", cur_app |-> NoApp, cur_ep |-> <<>>,
              eps_left |-> <<>>, apps_left |-> <<>>, next_url |-> PyNone]

Goto(pos) ==
    /\ dpc' = pos.dpc
    /\ cur_app' = pos.cur_app
    /\ cur_ep' = pos.cur_ep
    /\ eps_left' = pos.eps_left
    /\ apps_left' = pos.apps_left
    /\ next_url' = pos.next_url
    /\ results' = <<>>

\* dump[app][endpoint] = value (line 256)
SetEntry(d, app, endpoint, value) ==
    SetItem(d, app, SetItem(Get(d, app), endpoint, value))

\* A caller that goes on whatever the call did.
Dead_Never(o) == FALSE

\* sys.exit or an exception that nothing catches: the process is over.
Die(o) ==
    /\ pc' = IF o.ctl = "exit" THEN "exited" ELSE "raised"
    /\ exit_code' = o.code
    /\ exc' = o.exc
    /\ stdout' = stdout \o o.out
    /\ stderr' = stderr \o o.err

Dead(o) == o.ctl \in {"exit", "raise"}

Alive == UNCHANGED <<pc, exit_code, exc, stdout, stderr>>

DumpInit ==
    /\ server = DumpServer
    /\ cmd = "dump"
    /\ params = PyDict(<<>>)
    /\ pc = "running"
    /\ next_url = PyNone
    /\ first_params = PyNone
    /\ results = <<>>
    /\ retval = PyNone
    /\ exit_code = NoExit
    /\ exc = ""
    /\ stdout = <<>>
    /\ stderr = <<>>
    /\ sent = <<>>
    /\ has_config \in BOOLEAN
    /\ fmt \in Formats
    /\ include_all \in BOOLEAN
    /\ dpc = "start"
    /\ dump_fmt = ""
    /\ hostname = PyNone
    /\ apps_left = <<>>
    /\ eps_left = <<>>
    /\ cur_app = NoApp
    /\ cur_ep = <<>>
    /\ dump = PyDict(<<>>)
    /\ file = NoFile
    /\ args = NoArgs
    /\ rendered = <<>>

\* main up to the dump branch's format check (lines 450-515).
DumpStart ==
    /\ cmd = "dump" /\ pc = "running" /\ dpc = "start"
    /\ IF ~has_config
       THEN /\ Die(Exits(2, <<>>,
                   <<Line("Missing NETBOX_URL or NETBOX_TOKEN in .env", 0, <<>>)>>))
            /\ UNCHANGED <<dpc, dump_fmt>>
       ELSE /\ dump_fmt' = DumpFormat(fmt)
            /\ IF DumpFormatRejected(DumpFormat(fmt))
               THEN /\ Die(Exits(2, <<>>,
                           <<Line("Dump output supports YAML or JSON only.", 0, <<>>)>>))
                    /\ UNCHANGED dpc
               ELSE dpc' = "status" /\ Alive
    /\ UNCHANGED <<server, cmd, params, next_url, first_params, results, retval, sent>>
    /\ UNCHANGED cliVars
    /\ UNCHANGED <<has_config, fmt, include_all, hostname, apps_left, eps_left,
                   cur_app, cur_ep, dump, file>>

\* build_dump_payload's status request (lines 301-303).
DumpStatus ==
    /\ cmd = "dump" /\ pc = "running" /\ dpc = "status"
    /\ LET url == ensure_trailing_slash(build_url(BaseUrl, S_status)) IN
       \E resp \in Lookup(url) :
          LET o == request_json(resp)
              oo == IF ~Dead(o) /\ ~IsDict(o.value) THEN Throws("AttributeError") ELSE o
          IN  /\ sent' = Append(sent, Get_(url, PyNone, resp))
              /\ IF Dead(oo)
                 THEN Die(oo) /\ UNCHANGED <<dpc, hostname>>
                 ELSE /\ hostname' = IF HasKey(o.value, S_hostname)
                                     THEN Get(o.value, S_hostname)
                                     ELSE PyStr(S_unknown)
                      /\ dpc' = "root"
                      /\ Alive
    /\ UNCHANGED <<server, cmd, params, next_url, first_params, results, retval>>
    /\ UNCHANGED cliVars
    /\ UNCHANGED <<has_config, fmt, include_all, dump_fmt, apps_left, eps_left,
                   cur_app, cur_ep, dump, file>>

\* fetch_api_root and the start of the outer loop (lines 232-233, 243-248).
DumpRoot ==
    /\ cmd = "dump" /\ pc = "running" /\ dpc = "root"
    /\ LET url == ensure_trailing_slash(RStrip(BaseUrl, "/") \o <<"/", "a", "p", "i">>) IN
       \E resp \in Lookup(url) :
          LET o == request_json(resp)
              oo == IF ~Dead(o) /\ ~IsDict(o.value) THEN Throws("AttributeError") ELSE o
          IN  /\ sent' = Append(sent, Get_(url, PyNone, resp))
              /\ IF Dead(oo)
                 THEN /\ Die(oo)
                      /\ UNCHANGED <<dpc, cur_app, cur_ep, eps_left, apps_left,
                                     next_url, results>>
                 ELSE Goto(Position(NoApp, <<>>, SortedItems(o.value))) /\ Alive
    /\ UNCHANGED <<server, cmd, params, first_params, retval>>
    /\ UNCHANGED cliVars
    /\ UNCHANGED <<has_config, fmt, include_all, dump_fmt, hostname, dump, file>>

\* One application: its listing, its empty entry, the start of the inner loop
\* (lines 249-255).
DumpApp ==
    /\ cmd = "dump" /\ pc = "running" /\ dpc = "app"
    /\ \E resp \in Lookup(cur_app.v.s) :
          LET o == request_json(resp)
              endpoints == IF IsDict(o.value) THEN SortedKeys(o.value) ELSE <<>>
          IN  /\ sent' = Append(sent, Get_(cur_app.v.s, PyNone, resp))
              /\ IF Dead(o)
                 THEN /\ Die(o)
                      /\ UNCHANGED <<dpc, cur_app, cur_ep, eps_left, apps_left,
                                     next_url, results, dump>>
                 ELSE /\ dump' = SetItem(dump, cur_app.k, PyDict(<<>>))
                      /\ Goto(Position(cur_app, endpoints, apps_left))
                      /\ Alive
    /\ UNCHANGED <<server, cmd, params, first_params, retval>>
    /\ UNCHANGED cliVars
    /\ UNCHANGED <<has_config, fmt, include_all, dump_fmt, hostname, file>>

\* One GET of request_all_safe for the endpoint under way, and, when the
\* call returns, the entry it fills and the step to what comes next
\* (lines 205-217, 256-258).
DumpEndpoint ==
    /\ cmd = "dump" /\ pc = "running" /\ dpc = "endpoint"
    /\ \E resp \in Lookup(next_url.s) :
          LET o == request_all_safe_page(resp, results)
              more == o.ctl = "continue" /\ Truthy(o.next_url)
              value == IF o.ctl = "return" THEN o.value ELSE Aggregated(o.results)
          IN  /\ sent' = Append(sent, Get_(next_url.s, PyNone, resp))
              /\ IF Dead(o)
                 THEN /\ Die(o)
                      /\ UNCHANGED <<dpc, cur_app, cur_ep, eps_left, apps_left,
                                     next_url, results, dump>>
                 ELSE IF more
                 THEN /\ results' = o.results
                      /\ next_url' = o.next_url
                      /\ UNCHANGED <<dpc, cur_app, cur_ep, eps_left, apps_left, dump>>
                      /\ Alive
                 ELSE /\ dump' = SetEntry(dump, cur_app.k, cur_ep, value)
                      /\ Goto(Position(cur_app, eps_left, apps_left))
                      /\ Alive
    /\ UNCHANGED <<server, cmd, params, first_params, retval>>
    /\ UNCHANGED cliVars
    /\ UNCHANGED <<has_config, fmt, include_all, dump_fmt, hostname, file>>

\* The envelope build_dump_payload returns (lines 304-321); the clock and the
\* time zone are the environment's.
DumpPayload ==
    PyDict(<<KV(<<"n", "e", "t", "b", "o", "x", "_", "d", "a", "t", "a">>,
        PyDict(<<KV(S_hostname, hostname),
                 KV(<<"d", "u", "m", "p", "_", "d", "a", "t", "e", "t", "i", "m", "e">>,
                    PyStr(<<"n", "o", "w">>)),
                 KV(<<"d", "u", "m", "p", "_", "t", "i", "m", "e", "z", "o", "n", "e">>,
                    PyStr(<<"T", "Z">>)),
                 KV(<<"n", "b", "_", "i", "d">>, PyStr(<<"n", "b">>)),
                 KV(<<"d", "a", "t", "a">>, dump)>>))>>)

\* formatters.serialize_payload(payload, fmt): the payload in the given format.
serialize_payload(payload, f) == [format |-> f, payload |-> payload]

\* The file is opened and written, and main returns (lines 519-523).
DumpWrite ==
    /\ cmd = "dump" /\ pc = "running" /\ dpc = "write"
    /\ file' = [written |-> TRUE, content |-> serialize_payload(DumpPayload, dump_fmt)]
    /\ stdout' = Append(stdout, Line("Wrote {filename}", 0, <<>>))
    /\ dpc' = "done"
    /\ pc' = "returned"
    /\ exit_code' = 0
    /\ UNCHANGED <<server, cmd, params, next_url, first_params, results, retval,
                   exc, stderr, sent>>
    /\ UNCHANGED cliVars
    /\ UNCHANGED <<has_config, fmt, include_all, dump_fmt, hostname, apps_left,
                   eps_left, cur_app, cur_ep, dump>>

DumpNext == DumpStart \/ DumpStatus \/ DumpRoot \/ DumpApp \/ DumpEndpoint \/ DumpWrite

DumpSpec == DumpInit /\ [][DumpNext]_vars

(***************************************************************************)
(* Path words, tokens, key=value items and selectors.                      *)
(***************************************************************************)
PyBool(b) == [type |-> "bool", s |-> <<>>, n |-> IF b THEN 1 ELSE 0, items |-> <<>>]

PyFloat(i) == [type |-> "float", s |-> <<>>, n |-> i, items |-> <<>>]

\* s.strip(): white space off both ends.
RECURSIVE Strip(_)
Strip(str) ==
    IF str # <<>> /\ str[1] = " " THEN Strip(Tail(str))
    ELSE IF str # <<>> /\ str[Len(str)] = " " THEN Strip(SubSeq(str, 1, Len(str) - 1))
    ELSE str

\* The position of the first c in str, 0 when there is none.
Find(str, c) ==
    IF \E i \in 1..Len(str) : str[i] = c
    THEN CHOOSE i \in 1..Len(str) : str[i] = c /\ \A j \in 1..(i - 1) : str[j] # c
    ELSE 0

\* s.split(c): at least one part; empty parts are kept.
RECURSIVE Split(_, _)
Split(str, c) ==
    IF Find(str, c) = 0 THEN <<str>>
    ELSE <<SubSeq(str, 1, Find(str, c) - 1)>>
         \o Split(SubSeq(str, Find(str, c) + 1, Len(str)), c)

\* c.join(words)
RECURSIVE Join(_, _)
Join(words, c) ==
    IF words = <<>> THEN <<>>
    ELSE IF Len(words) = 1 THEN words[1]
    ELSE words[1] \o <<c>> \o Join(Tail(words), c)

S_cli_config == <<"c", "l", "i", " ", "c", "o", "n", "f", "i", "g">>

\* normalize_path(path)
normalize_path(path) ==
    LET cleaned == LStrip(Strip(path), "/")
        cut == IF StartsWith(cleaned, S_api) THEN SubSeq(cleaned, 5, Len(cleaned))
               ELSE cleaned
    IN  RStrip(cut, "/")

is_status_path(path) == normalize_path(path) = S_status

\* A test that takes no path for the configuration pseudo-path.
is_cli_config_path_Never(path) == FALSE

is_cli_config_path(path) == normalize_path(path) = S_cli_config

\* split_path_variants(path_parts): the space-joined and the slash-joined form.
split_path_variants(path_parts) ==
    [spaced |-> Join(path_parts, " "), slashed |-> Join(path_parts, "/")]

\* "*" * n
Stars(n) == [i \in 1..n |-> "*"]

\* A mask that keeps the first four characters instead of the last four.
mask_token_KeepFirst(token) ==
    IF token = <<>> THEN PyNone
    ELSE IF Len(token) <= 4 THEN PyStr(Stars(Len(token)))
    ELSE PyStr(SubSeq(token, 1, 4) \o Stars(Len(token) - 4))

\* mask_token(token)
mask_token(token) ==
    IF token = <<>> THEN PyNone
    ELSE IF Len(token) <= 4 THEN PyStr(Stars(Len(token)))
    ELSE PyStr(Stars(Len(token) - 4) \o SubSeq(token, Len(token) - 3, Len(token)))

\* A loop step that keeps only the latest value of a key.
StoreItem_Overwrite(d, item) ==
    SetItem(d, SubSeq(item, 1, Find(item, "=") - 1),
            PyStr(SubSeq(item, Find(item, "=") + 1, Len(item))))

\* One step of parse_kv_list's loop for an item that has an "=": the dict
\* with the item's value stored under its key (lines 81-88).
StoreItem(d, item) ==
    LET key == SubSeq(item, 1, Find(item, "=") - 1)
        value == PyStr(SubSeq(item, Find(item, "=") + 1, Len(item)))
    IN  IF HasKey(d, key)
        THEN IF Get(d, key).type = "list"
             THEN SetItem(d, key, PyList(Append(Get(d, key).items, value)))
             ELSE SetItem(d, key, PyList(<<Get(d, key), value>>))
        ELSE SetItem(d, key, value)

\* parse_kv_list(values), from the dict built so far.
RECURSIVE ParseFrom(_, _)
ParseFrom(d, values) ==
    IF values = <<>> THEN Returns(d)
    ELSE IF Find(Head(values), "=") = 0
    THEN Exits(2, <<>>,
               <<Line("Invalid param '{item}'. Use key=value.", 0, Head(values))>>)
    ELSE ParseFrom(StoreItem(d, Head(values)), Tail(values))

parse_kv_list(values) == ParseFrom(PyDict(<<>>), values)

\* combine_kv_lists(param, filter)
combine_kv_lists(param, filter) == parse_kv_list(param \o filter)

\* The character U+00B2 (superscript two): str.isdigit() counts it as a
\* digit, int() does not accept it.
SuperTwo == "^2"

DecimalDigits == <<"0", "1", "2", "3", "4", "5", "6", "7", "8", "9">>

IsDecimalChar(c) == \E i \in 1..10 : DecimalDigits[i] = c

\* part.isdigit()
IsDigit(part) ==
    part # <<>> /\ \A i \in 1..Len(part) : IsDecimalChar(part[i]) \/ part[i] = SuperTwo

\* Whether int(part) accepts part (it raises ValueError otherwise).
IntAccepts(part) == part # <<>> /\ \A i \in 1..Len(part) : IsDecimalChar(part[i])

\* int(part) for a string of decimal digits.
RECURSIVE ToInt(_)
ToInt(part) ==
    IF part = <<>> THEN 0
    ELSE 10 * ToInt(SubSeq(part, 1, Len(part) - 1))
         + (CHOOSE i \in 0..9 : DecimalDigits[i + 1] = part[Len(part)])

\* The loop of extract_path_value from node current over the parts that are
\* left (lines 118-133).
RECURSIVE Walk(_, _)
Walk(current, parts) ==
    IF parts = <<>> THEN Returns(current)
    ELSE IF current.type = "dict"
    THEN IF ~HasKey(current, Head(parts)) THEN Throws("KeyError")
         ELSE Walk(Get(current, Head(parts)), Tail(parts))
    ELSE IF current.type = "list"
    THEN IF ~IsDigit(Head(parts)) THEN Throws("KeyError")
         ELSE IF ~IntAccepts(Head(parts)) THEN Throws("ValueError")
         ELSE IF ToInt(Head(parts)) >= Len(current.items) THEN Throws("KeyError")
         ELSE Walk(current.items[ToInt(Head(parts)) + 1], Tail(parts))
    ELSE Throws("KeyError")

\* A selector that is taken as it was typed, white space included.
extract_path_value_NoStrip(payload, selector) ==
    IF selector = PyNone THEN Returns(payload)
    ELSE LET path == IF StartsWith(selector.s, <<".">>) THEN Tail(selector.s)
                     ELSE selector.s
         IN  IF path = <<>> THEN Returns(payload)
             ELSE Walk(payload, Split(path, "."))

\* extract_path_value(payload, selector)
extract_path_value(payload, selector) ==
    IF selector = PyNone THEN Returns(payload)
    ELSE LET stripped == Strip(selector.s)
             path == IF StartsWith(stripped, <<".">>) THEN Tail(stripped) ELSE stripped
         IN  IF path = <<>> THEN Returns(payload)
             ELSE Walk(payload, Split(path, "."))

(***************************************************************************)
(* The output formatter (nbcli/utils/formatters.py).                       *)
(***************************************************************************)
S_key == <<"k", "e", "y">>

S_value == <<"v", "a", "l", "u", "e">>

\* str(i) for i >= 0
RECURSIVE Digits(_)
Digits(i) ==
    IF i < 10 THEN <<DecimalDigits[i + 1]>>
    ELSE Digits(i \div 10) \o <<DecimalDigits[(i % 10) + 1]>>

\* json.dumps(value, sort_keys=True) for the values of the model.
RECURSIVE JsonDumps(_)
RECURSIVE JsonElems(_)
RECURSIVE JsonEntries(_)
JsonDumps(v) ==
    CASE v.type = "NoneType" -> <<"n", "u", "l", "l">>
      [] v.type = "bool" -> IF v.n = 1 THEN <<"t", "r", "u", "e">>
                            ELSE <<"f", "a", "l", "s", "e">>
      [] v.type = "str" -> <<"\"">> \o v.s \o <<"\"">>
      [] v.type = "list" -> <<"[">> \o JsonElems(v.items) \o <<"]">>
      [] v.type = "dict" -> <<"{">> \o JsonEntries(SortedItems(v)) \o <<"}">>
      [] OTHER -> Digits(v.n)

JsonElems(elems) ==
    IF elems = <<>> THEN <<>>
    ELSE IF Len(elems) = 1 THEN JsonDumps(elems[1])
    ELSE JsonDumps(elems[1]) \o <<",", " ">> \o JsonElems(Tail(elems))

JsonEntries(entries) ==
    IF entries = <<>> THEN <<>>
    ELSE LET one == <<"\"">> \o entries[1].k \o <<"\"", ":", " ">>
                    \o JsonDumps(entries[1].v)
         IN  IF Len(entries) = 1 THEN one
             ELSE one \o <<",", " ">> \o JsonEntries(Tail(entries))

\* flatten_payload(payload, prefix): (dotted key, leaf) pairs.
RECURSIVE flatten_payload(_, _)
RECURSIVE FlattenEntries(_, _)
flatten_payload(payload, prefix) ==
    CASE payload.type = "dict" -> FlattenEntries(SortedItems(payload), prefix)
      [] payload.type = "list" -> <<KV(prefix, PyStr(JsonDumps(payload)))>>
      [] OTHER -> <<KV(prefix, payload)>>

\* The loop of flatten_payload over the sorted keys (lines 52-55).
FlattenEntries(entries, prefix) ==
    IF entries = <<>> THEN <<>>
    ELSE LET joined == IF prefix # <<>> THEN prefix \o <<".">> \o Head(entries).k
                       ELSE Head(entries).k
         IN  flatten_payload(Head(entries).v, joined)
             \o FlattenEntries(Tail(entries), prefix)

\* What normalize_csv_rows returns.
Table(fieldnames, rows) == [fieldnames |-> fieldnames, rows |-> rows]

\* headers: the keys of the dict rows, "value" for any other row, each once.
RECURSIVE Headers(_, _)
Headers(rows, seen) ==
    IF rows = <<>> THEN seen
    ELSE LET keys == IF Head(rows).type = "dict"
                     THEN [i \in 1..Len(Head(rows).items) |-> Head(rows).items[i].k]
                     ELSE <<S_value>>
             fresh == SelectSeq(keys, LAMBDA key : \A i \in 1..Len(seen) : seen[i] # key)
         IN  Headers(Tail(rows), seen \o fresh)

\* sorted(headers)
Fieldnames(rows) ==
    LET h == Headers(rows, <<>>)
        sorted == SortedByKey([i \in 1..Len(h) |-> KV(h[i], PyNone)])
    IN  [i \in 1..Len(h) |-> sorted[i].k]

\* One cleaned row (lines 89-97).
Cleaned(row, fieldnames) ==
    IF row.type = "dict"
    THEN PyDict([i \in 1..Len(fieldnames) |->
            LET value == Get(row, fieldnames[i])
            IN  KV(fieldnames[i],
                   IF value.type \in {"dict", "list"} THEN PyStr(JsonDumps(value))
                   ELSE value)])
    ELSE PyDict(<<KV(S_value, row)>>)

\* Lines 76-99: the table of a list of rows.
RowsTable(rows) ==
    IF rows = <<>> THEN Table(<<>>, <<>>)
    ELSE Table(Fieldnames(rows),
               [i \in 1..Len(rows) |-> Cleaned(rows[i], Fieldnames(rows))])

\* normalize_csv_rows(payload), src/nbcli/utils/formatters.py
normalize_csv_rows(payload) ==
    IF payload.type = "dict" /\ Get(payload, K_results).type = "list"
    THEN RowsTable(Get(payload, K_results).items)
    ELSE IF payload.type = "list" THEN RowsTable(payload.items)
    ELSE IF payload.type = "dict"
    THEN LET flattened == flatten_payload(payload, <<>>)
         IN  Table(<<S_key, S_value>>,
                   [i \in 1..Len(flattened) |->
                       PyDict(<<KV(S_key, PyStr(flattened[i].k)),
                                KV(S_value, flattened[i].v)>>)])
    ELSE RowsTable(<<payload>>)

\* normalize_csv_rows(payload), the top-level nbcli/utils/formatters.py
legacy_normalize_csv_rows(payload) ==
    IF payload.type = "dict" /\ Get(payload, K_results).type = "list"
    THEN RowsTable(Get(payload, K_results).items)
    ELSE IF payload.type = "list" THEN RowsTable(payload.items)
    ELSE RowsTable(<<payload>>)

\* One call of print or one CSV document on stdout.
Rendered(format, payload, table) ==
    [format |-> format, payload |-> payload, fieldnames |-> table.fieldnames,
     rows |-> table.rows]

\* emit_csv(fieldnames, rows): nothing when there are no rows.
emit_csv(payload, table) ==
    IF table.rows = <<>> THEN <<>> ELSE <<Rendered("csv", payload, table)>>

\* output_payload(payload, fmt, allow_color): what it puts on stdout.
output_payload(payload, format) ==
    IF format = "csv" THEN emit_csv(payload, normalize_csv_rows(payload))
    ELSE <<Rendered(format, payload, Table(<<>>, <<>>))>>

\* output_payload of the top-level nbcli/utils/formatters.py
legacy_output_payload(payload, format) ==
    IF format = "csv" THEN emit_csv(payload, legacy_normalize_csv_rows(payload))
    ELSE <<Rendered(format, payload, Table(<<>>, <<>>))>>

\* output_selected(payload, selector, fmt, allow_color)
output_selected(payload, selector) ==
    LET o == extract_path_value(payload, selector) IN
    IF o.ctl = "raise" /\ o.exc = "KeyError"
    THEN Exits(2, <<>>, <<Line("Path not found: {selector}", 0, selector.s)>>)
    ELSE o

(***************************************************************************)
(* The selector, the formatter, the key=value parser and the token mask,   *)
(* each applied once to inputs drawn from small sets.                      *)
(***************************************************************************)
\* The most --param items, and the most --filter items, on a command line.
MaxItems == 2

\* The longest token.
MaxTokenLen == 6

Name(chars) == PyDict(<<KV(<<"n", "a", "m", "e">>, PyStr(chars))>>)

\* JSON values a command may have to select from and render.
Payloads ==
    { PyDict(<<KV(K_results, PyList(<<Name(<<"r", "1">>), Name(<<"r", "2">>)>>))>>),
      PyDict(<<KV(<<"x">>, PyDict(<<KV(<<"y">>, PyInt(1))>>))>>),
      PyDict(<<KV(<<"a">>, PyList(<<PyStr(<<"p">>), PyDict(<<KV(<<"b">>, PyNone)>>)>>)),
               KV(<<"0">>, PyStr(<<"z">>))>>),
      PyDict(<<KV(K_results, PyInt(5)), KV(<<"k">>, PyList(<<PyInt(1), PyInt(2)>>))>>),
      PyDict(<<KV(<<"x">>, PyDict(<<>>))>>),
      PyDict(<<KV(<<>>, PyDict(<<KV(<<"a">>, PyInt(1))>>)), KV(<<"a">>, PyInt(2))>>),
      PyDict(<<KV(K_results, PyList(<<>>))>>),
      PyDict(<<>>),
      PyList(<<PyDict(<<KV(<<"b">>, PyInt(2))>>),
               PyDict(<<KV(<<"a">>, PyList(<<PyInt(1)>>))>>), PyStr(<<"s">>)>>),
      PyList(<<>>),
      PyStr(<<"v">>),
      PyInt(7),
      PyNone }

\* Values of --path.
Selectors ==
    {PyNone} \cup
    { PyStr(<<>>),
      PyStr(<<".">>),
      PyStr(<<" ">>),
      PyStr(<<".", "r", "e", "s", "u", "l", "t", "s", ".", "1", ".", "n", "a", "m", "e">>),
      PyStr(<<".", "r", "e", "s", "u", "l", "t", "s", ".", "5", ".", "n", "a", "m", "e">>),
      PyStr(<<".", "r", "e", "s", "u", "l", "t", "s", ".", "0">>),
      PyStr(<<"r", "e", "s", "u", "l", "t", "s", ".", "0", "1", ".", "n", "a", "m", "e">>),
      PyStr(<<".", "r", "e", "s", "u", "l", "t", "s", ".", SuperTwo>>),
      PyStr(<<".", "r", "e", "s", "u", "l", "t", "s", ".", "-", "1">>),
      PyStr(<<".", "r", "e", "s", "u", "l", "t", "s", ".", "x", ".", "n", "a", "m", "e">>),
      PyStr(<<".", "x", ".", "y">>),
      PyStr(<<".", "x", ".", "y", ".", "z">>),
      PyStr(<<".", "0">>),
      PyStr(<<" ", ".", "a", ".", "1", ".", "b", " ">>),
      PyStr(<<".", "a", ".", "1", ".", "b", ".", "c">>),
      PyStr(<<".", "n", "o", "k", "e", "y", ".", "x">>),
      PyStr(<<".", "a", ".", "0">>) }

\* key=value items, one of them without an "=".
Items ==
    { <<"a", "=", "1">>,
      <<"a", "=", "2">>,
      <<"b", "=", "3">>,
      <<"a", "=", "b", "=", "c">>,
      <<"b", "a", "d">> }

SeqsUpTo(set, n) == UNION {[1..k -> set] : k \in 0..n}

TokenChars == {"a", "b", "1"}

UnitCommands ==
    {"output_selected", "legacy_output_payload", "combine_kv_lists", "mask_token"}

UnitInit ==
    /\ cmd \in UnitCommands
    /\ fmt \in IF cmd \in {"output_selected", "legacy_output_payload"}
               THEN Formats ELSE {"pretty"}
    /\ args \in
         CASE cmd = "output_selected" ->
                 {[NoArgs EXCEPT !.payload = p, !.select_path = sel] :
                      p \in Payloads, sel \in Selectors}
           [] cmd = "legacy_output_payload" ->
                 {[NoArgs EXCEPT !.payload = p] : p \in Payloads}
           [] cmd = "combine_kv_lists" ->
                 {[NoArgs EXCEPT !.param = a, !.filter = b] :
                      a \in SeqsUpTo(Items, MaxItems), b \in SeqsUpTo(Items, MaxItems)}
           [] OTHER ->
                 {[NoArgs EXCEPT !.token = t] : t \in SeqsUpTo(TokenChars, MaxTokenLen)}
    /\ server = <<>>
    /\ params = PyNone
    /\ pc = "running"
    /\ next_url = PyNone
    /\ first_params = PyNone
    /\ results = <<>>
    /\ retval = PyNone
    /\ exit_code = NoExit
    /\ exc = ""
    /\ stdout = <<>>
    /\ stderr = <<>>
    /\ sent = <<>>
    /\ has_config = TRUE
    /\ include_all = FALSE
    /\ dpc = "none"
    /\ dump_fmt = ""
    /\ hostname = PyNone
    /\ apps_left = <<>>
    /\ eps_left = <<>>
    /\ cur_app = NoApp
    /\ cur_ep = <<>>
    /\ dump = PyDict(<<>>)
    /\ file = NoFile
    /\ rendered = <<>>

\* The end of a call that makes no request: it returned o.value, or the
\* process is over.
Finish(o) ==
    /\ pc' = CASE o.ctl = "exit" -> "exited"
               [] o.ctl = "raise" -> "raised"
               [] OTHER -> "returned"
    /\ exit_code' = o.code
    /\ exc' = o.exc
    /\ stdout' = stdout \o o.out
    /\ stderr' = stderr \o o.err
    /\ retval' = IF o.ctl = "return" THEN o.value ELSE retval

UnitFrame ==
    /\ UNCHANGED <<server, cmd, params, next_url, first_params, results, sent>>
    /\ UNCHANGED <<dumpVars, args>>

\* output_selected: the selection, then output_payload of what was selected.
OutputSelected ==
    /\ cmd = "output_selected" /\ pc = "running"
    /\ LET o == output_selected(args.payload, args.select_path) IN
       /\ Finish(o)
       /\ rendered' = IF o.ctl = "return" THEN rendered \o output_payload(o.value, fmt)
                      ELSE rendered
    /\ UnitFrame

\* output_payload of the top-level package, which main calls with the payload
\* as it came.
LegacyOutputPayload ==
    /\ cmd = "legacy_output_payload" /\ pc = "running"
    /\ Finish(Returns(args.payload))
    /\ rendered' = rendered \o legacy_output_payload(args.payload, fmt)
    /\ UnitFrame

\* combine_kv_lists(args.param, args.filter)
CombineKvLists ==
    /\ cmd = "combine_kv_lists" /\ pc = "running"
    /\ Finish(combine_kv_lists(args.param, args.filter))
    /\ UNCHANGED rendered
    /\ UnitFrame

\* mask_token(token)
MaskToken ==
    /\ cmd = "mask_token" /\ pc = "running"
    /\ Finish(Returns(mask_token(args.token)))
    /\ UNCHANGED rendered
    /\ UnitFrame

UnitNext == OutputSelected \/ LegacyOutputPayload \/ CombineKvLists \/ MaskToken

UnitSpec == UnitInit /\ [][UnitNext]_vars

(***************************************************************************)
(* The status and get commands (main, lines 446-494).                      *)
(***************************************************************************)
\* The attributes argparse puts in the namespace: those of the shared parser
\* (lines 326-349, 358) and those of the chosen subparser (lines 360-443).
Attributes(command) ==
    {"timeout", "insecure", "plain", "json", "yaml", "csv", "command"}
    \cup CASE command = "get" -> {"path", "param", "filter", "select_path"}
           [] command = "list" -> {"endpoint", "param", "filter", "select_path", "all"}
           [] command = "dump" -> {"filename", "include_all"}
           [] command = "show" -> {"target", "all", "select_path"}
           [] OTHER -> {}

\* args.<name>: the value, or AttributeError when the namespace lacks it.
Attribute(command, name, value) ==
    IF name \in Attributes(command) THEN Returns(value) ELSE Throws("AttributeError")

\* The payload of lines 476-483.
ConfigPayload ==
    PyDict(<<KV(<<"n", "e", "t", "b", "o", "x", "_", "u", "r", "l">>, PyStr(BaseUrl)),
             KV(<<"t", "o", "k", "e", "n", "_", "p", "r", "e", "s", "e", "n", "t">>, PyBool(args.token # <<>>)),
             KV(<<"t", "o", "k", "e", "n", "_", "m", "a", "s", "k", "e", "d">>, mask_token(args.token)),
             KV(<<"t", "i", "m", "e", "o", "u", "t">>, PyFloat(30)),
             KV(<<"i", "n", "s", "e", "c", "u", "r", "e">>, PyBool(FALSE)),
             KV(<<"f", "o", "r", "m", "a", "t">>, PyStr(<<fmt>>))>>)

SrvSites == SrvEndpoint(S_dcim, S_sites)

\* What the NetBox of the status and get commands may answer.
CliServer ==
    (SrvStatus :> {Json200(StatusPayload), Json200(PyDict(<<>>)), Error500,
                   Timeout, Html200})
    @@ (SrvSites :> {Json200(Page(<<A>>, PyNone)), NotFound404, ConnectionError})

\* The words after `get`.
PathWords ==
    { <<<<"s", "t", "a", "t", "u", "s">>>>,
      <<<<"/", "s", "t", "a", "t", "u", "s", "/">>>>,
      <<<<"a", "p", "i", "/", "s", "t", "a", "t", "u", "s">>>>,
      <<<<"/", "a", "p", "i", "/", "s", "t", "a", "t", "u", "s", "/">>>>,
      <<<<" ", "s", "t", "a", "t", "u", "s", " ">>>>,
      <<<<"c", "l", "i">>, <<"c", "o", "n", "f", "i", "g">>>>,
      <<<<"/", "c", "l", "i">>, <<"c", "o", "n", "f", "i", "g", "/">>>>,
      <<<<"a", "p", "i", "/", "c", "l", "i">>, <<"c", "o", "n", "f", "i", "g">>>>,
      <<<<"/", "a", "p", "i", "/", "c", "l", "i">>, <<"c", "o", "n", "f", "i", "g", "/">>>>,
      <<<<"c", "l", "i", " ", "c", "o", "n", "f", "i", "g">>>>,
      <<<<"c", "l", "i", "/", "c", "o", "n", "f", "i", "g">>>>,
      <<<<"c", "o", "n", "f", "i", "g">>>>,
      <<<<"d", "c", "i", "m", "/", "s", "i", "t", "e", "s">>>>,
      <<<<"h", "t", "t", "p", ":", "/", "/", "n", "b", "/", "a", "p", "i", "/", "d", "c", "i", "m", "/", "s", "i", "t", "e", "s", "/">>>> }

CliSelectors == {PyNone, PyStr(<<".", "h", "o", "s", "t", "n", "a", "m", "e">>), PyStr(<<".", "f", "o", "r", "m", "a", "t">>)}

CliItems == {<<>>, <<<<"a", "=", "1">>>>, <<<<"b", "a", "d">>>>}

Tokens == {<<"a", "b", "c", "d", "1", "2", "3", "4">>, <<"a", "b", "c">>}

CliInit ==
    /\ cmd \in {"status", "get"}
    /\ fmt \in Formats
    /\ has_config \in BOOLEAN
    /\ args \in
         IF cmd = "status"
         THEN {[NoArgs EXCEPT !.token = t] : t \in Tokens}
         ELSE {[NoArgs EXCEPT !.token = t, !.path = w, !.select_path = sel,
                              !.param = a] :
                   t \in Tokens, w \in PathWords, sel \in CliSelectors, a \in CliItems}
    /\ server = CliServer
    /\ params = PyNone
    /\ pc = "running"
    /\ next_url = PyNone
    /\ first_params = PyNone
    /\ results = <<>>
    /\ retval = PyNone
    /\ exit_code = NoExit
    /\ exc = ""
    /\ stdout = <<>>
    /\ stderr = <<>>
    /\ sent = <<>>
    /\ include_all = FALSE
    /\ dpc = "none"
    /\ dump_fmt = ""
    /\ hostname = PyNone
    /\ apps_left = <<>>
    /\ eps_left = <<>>
    /\ cur_app = NoApp
    /\ cur_ep = <<>>
    /\ dump = PyDict(<<>>)
    /\ file = NoFile
    /\ rendered = <<>>

\* The end of main: after the requests reqs, o is the process's exit, the
\* exception that escaped, or the value handed to output_payload.
Conclude(o, reqs) ==
    /\ sent' = sent \o reqs
    /\ pc' = CASE o.ctl = "exit" -> "exited"
               [] o.ctl = "raise" -> "raised"
               [] OTHER -> "returned"
    /\ exit_code' = IF o.ctl = "return" THEN 0 ELSE o.code
    /\ exc' = o.exc
    /\ stdout' = stdout \o o.out
    /\ stderr' = stderr \o o.err
    /\ retval' = IF o.ctl = "return" THEN o.value ELSE retval
    /\ rendered' = IF o.ctl = "return" THEN rendered \o output_payload(o.value, fmt)
                   ELSE rendered
    /\ UNCHANGED <<server, cmd, params, next_url, first_params, results>>
    /\ UNCHANGED <<dumpVars, args>>

\* load_config and combine_kv_lists (lines 450-455): the params, or exit 2.
Preamble ==
    IF ~has_config
    THEN Exits(2, <<>>, <<Line("Missing NETBOX_URL or NETBOX_TOKEN in .env", 0, <<>>)>>)
    ELSE combine_kv_lists(args.param, args.filter)

\* request_json and then output_selected with args.select_path (lines
\* 469-470, 488-489, 492-493), up to the call of output_payload.
Fetched_Selected(resp) ==
    LET o == request_json(resp)
        sel == Attribute(cmd, "select_path", args.select_path)
    IN  IF Dead(o) THEN o
        ELSE IF Dead(sel) THEN sel
        ELSE output_selected(o.value, sel.value)

\* The status command (lines 467-471).
MainStatus ==
    /\ cmd = "status" /\ pc = "running"
    /\ IF Dead(Preamble) THEN Conclude(Preamble, <<>>)
       ELSE LET url == ensure_trailing_slash(build_url(BaseUrl, S_status)) IN
            \E resp \in Lookup(url) :
                Conclude(Fetched_Selected(resp), <<Get_(url, PyNone, resp)>>)

\* The get command (lines 473-494).
MainGet ==
    /\ cmd = "get" /\ pc = "running"
    /\ LET v == split_path_variants(args.path) IN
       IF Dead(Preamble) THEN Conclude(Preamble, <<>>)
       ELSE IF is_cli_config_path(v.spaced)
       THEN LET sel == Attribute(cmd, "select_path", args.select_path) IN
            Conclude(IF Dead(sel) THEN sel ELSE output_selected(ConfigPayload, sel.value),
                     <<>>)
       ELSE IF is_status_path(v.spaced)
       THEN LET url == ensure_trailing_slash(build_url(BaseUrl, S_status)) IN
            \E resp \in Lookup(url) :
                Conclude(Fetched_Selected(resp), <<Get_(url, PyNone, resp)>>)
       ELSE LET url == ensure_trailing_slash(build_url(BaseUrl, v.slashed)) IN
            \E resp \in Lookup(url) :
                Conclude(Fetched_Selected(resp), <<Get_(url, Preamble.value, resp)>>)

CliNext == MainStatus \/ MainGet

CliSpec == CliInit /\ [][CliNext]_vars

(***************************************************************************)
(* The server's side of pagination, stated on the server alone.            *)
(***************************************************************************)
\* The one answer a fixed server gives for url.
Answer(url) == CHOOSE r \in Lookup(url) : TRUE

Is2xx(resp) ==
    resp.kind = "Response" /\ resp.status_code >= 200 /\ resp.status_code < 300

IsTransportFailure(resp) == resp.kind # "Response"

IsJson2xx(resp) == Is2xx(resp) /\ resp.json # JsonInvalid

\* An Object whose `results` field is an Array.
IsEnvelope(value) ==
    /\ value.type = "dict"
    /\ \E i \in 1..Len(value.items) :
          value.items[i].k = K_results /\ value.items[i].v.type = "list"

\* An Object with a `results` field that is not an Array.
IsMalformedEnvelope(value) ==
    /\ value.type = "dict"
    /\ \E i \in 1..Len(value.items) :
          value.items[i].k = K_results /\ value.items[i].v.type # "list"

IsListPage(resp) == IsJson2xx(resp) /\ IsEnvelope(resp.json)

\* The elements of a list-shaped page, and its continuation.
PageResults(resp) == Get(resp.json, K_results).items

PageNext_(resp) == Get(resp.json, K_next)

\* The i-th response received.
Fetched(i) == sent[i].resp

AllFetched(P(_)) == \A i \in 1..Len(sent) : P(Fetched(i))

\* The concatenation of the first n received pages' results, in order.
RECURSIVE ConcatFetched(_)
ConcatFetched(n) ==
    IF n = 0 THEN <<>> ELSE ConcatFetched(n - 1) \o PageResults(Fetched(n))

RECURSIVE SumFetched(_)
SumFetched(n) ==
    IF n = 0 THEN 0 ELSE SumFetched(n - 1) + Len(PageResults(Fetched(n)))

\* The GETs follow the server's links: the first is to the start URL, each
\* later one to the `next` of the page before it.
FollowsLinks ==
    \A i \in 1..Len(sent) :
        sent[i].url = IF i = 1 THEN U1 ELSE PageNext_(Fetched(i - 1)).s

Looping == cmd \in {"request_all", "request_all_safe"}

\* C1: request_all over a chain of N >= 1 list-shaped 2xx pages neither exits
\* nor raises, fetches the pages in link order, and returns {count, results}
\* with results the concatenation of the pages' results in fetch order (none
\* dropped, reordered or deduplicated) and count the sum of their lengths.
C1_ConcatInPageOrder ==
    (cmd = "request_all" /\ AllFetched(IsListPage)) =>
        /\ pc \in {"running", "returned"}
        /\ FollowsLinks
        /\ results = ConcatFetched(Len(sent))
        /\ pc = "returned" =>
              /\ Len(sent) >= 1
              /\ PageNext_(Fetched(Len(sent))) = PyNone
              /\ retval = PyDict(<<KV(K_count, PyInt(SumFetched(Len(sent)))),
                                   KV(K_results, PyList(ConcatFetched(Len(sent))))>>)

\* Three pages [a], [b, a], [b, a] aggregated into five elements.
C1_Witness ==
    /\ cmd = "request_all"
    /\ pc = "returned"
    /\ Len(sent) = 3
    /\ AllFetched(IsListPage)
    /\ Get(retval, K_results) = PyList(<<A, B, A, B, A>>)


IsHttpError(resp) == resp.kind = "Response" /\ ~Is2xx(resp)

\* C3: in request_all_safe a non-2xx page, first or later, is the last GET of
\* the call, which returns {error: <body text>, status: <status code>} and
\* leaves the process running.
C3_SafeReturnsErrorResult ==
    cmd = "request_all_safe" =>
        \A i \in 1..Len(sent) :
            IsHttpError(Fetched(i)) =>
                /\ i = Len(sent)
                /\ pc = "returned"
                /\ exit_code = NoExit
                /\ exc = ""
                /\ retval = PyDict(<<KV(K_error, PyStr(Fetched(i).text)),
                                     KV(K_status, PyInt(Fetched(i).status_code))>>)

\* A 404 on the second page, after a list-shaped first page.
C3_Witness ==
    /\ cmd = "request_all_safe"
    /\ Len(sent) = 2
    /\ IsListPage(Fetched(1))
    /\ Fetched(2) = NotFound404
    /\ pc = "returned"
    /\ Get(retval, K_status) = PyInt(404)

\* C4 (as claimed): on the fail-fast paths every outcome is one class of the
\* taxonomy: a transport failure exits 3, a non-2xx response exits 1, a 2xx
\* body that is not JSON is printed to stdout and exits 0, a 2xx JSON body is
\* decoded and used; nothing escapes as an unhandled error.  Pages whose
\* `results` is not an array are left out here (they are C6's subject).
C4_EveryOutcomeClassified ==
    (cmd \in {"request_json", "request_all"} /\ Len(sent) >= 1) =>
        LET last == Fetched(Len(sent)) IN
        /\ IsTransportFailure(last) => (pc = "exited" /\ exit_code = 3)
        /\ IsHttpError(last) => (pc = "exited" /\ exit_code = 1)
        /\ (Is2xx(last) /\ last.json = JsonInvalid) =>
              /\ pc = "exited"
              /\ exit_code = 0
              /\ stdout = <<Line("{text}", 0, last.text)>>
        /\ (IsJson2xx(last) /\ ~IsMalformedEnvelope(last.json)) =>
              pc \in {"running", "returned"}
        /\ AllFetched(LAMBDA r : ~(IsJson2xx(r) /\ IsMalformedEnvelope(r.json))) =>
              pc # "raised"

\* A run whose every response is well-formed: 2xx, JSON, and either an
\* envelope or a value with no `results` field.
WellFormedRun ==
    AllFetched(LAMBDA r : IsJson2xx(r) /\ ~IsMalformedEnvelope(r.json))

\* C5 (as claimed): a loop that returns after a list-shaped first page returns
\* the aggregate of every page appended; the verbatim value is returned only
\* for a first response that is not list-shaped, after exactly one GET.
C5_VerbatimOnlyOnFirstPage ==
    (Looping /\ pc = "returned" /\ WellFormedRun /\ Len(sent) >= 1) =>
        IF IsListPage(Fetched(1))
        THEN /\ IsDict(retval)
             /\ HasKey(retval, K_count)
             /\ Get(retval, K_count) = PyInt(Len(Get(retval, K_results).items))
             /\ Get(retval, K_results) = PyList(results)
        ELSE Len(sent) = 1 /\ retval = Fetched(1).json

\* C6 (as claimed): a 2xx JSON value that is not an Object with an Array
\* `results` ends the loop and is returned verbatim, the accumulator holding
\* what the earlier pages gave.
C6_OnlyArrayResultsAccumulate ==
    Looping =>
        \A i \in 1..Len(sent) :
            (IsJson2xx(Fetched(i)) /\ ~IsEnvelope(Fetched(i).json)) =>
                /\ i = Len(sent)
                /\ pc = "returned"
                /\ retval = Fetched(i).json
                /\ results = ConcatFetched(i - 1)

\* C7: the first GET of request_all carries the caller's params and every
\* later GET of the same call carries none.
C7_ParamsOnFirstRequestOnly ==
    cmd = "request_all" =>
        \A i \in 1..Len(sent) :
            sent[i].params = IF i = 1 THEN params ELSE PyNone

\* Three GETs of one aggregation, the caller having passed params.
C7_Witness ==
    /\ cmd = "request_all"
    /\ params = Params1
    /\ Len(sent) >= 3
    /\ sent[1].params = Params1
    /\ sent[3].params = PyNone


\* Following `next` from url, the server's list-shaped pages reach a null
\* `next` within fuel pages.
RECURSIVE ChainEnds(_, _)
ChainEnds(url, fuel) ==
    /\ fuel > 0
    /\ IsListPage(Answer(url))
    /\ \/ PageNext_(Answer(url)) = PyNone
       \/ ChainEnds(PageNext_(Answer(url)).s, fuel - 1)

\* The number of pages of a chain that ends.
RECURSIVE ChainLength(_, _)
ChainLength(url, fuel) ==
    IF fuel = 0 \/ ~IsListPage(Answer(url)) \/ PageNext_(Answer(url)) = PyNone
    THEN 1
    ELSE 1 + ChainLength(PageNext_(Answer(url)).s, fuel - 1)

\* Following `next` from url, the next fuel pages are all list-shaped 2xx
\* pages with a `next`.
RECURSIVE ChainGoesOn(_, _)
ChainGoesOn(url, fuel) ==
    \/ fuel = 0
    \/ /\ IsListPage(Answer(url))
       /\ PageNext_(Answer(url)) # PyNone
       /\ ChainGoesOn(PageNext_(Answer(url)).s, fuel - 1)

\* Finitely many URLs: a chain that ends does so within one page per URL, and
\* one that goes on for more pages than there are URLs is a cycle.
EndingChain == ChainEnds(U1, Cardinality(Urls))

CyclicChain == ChainGoesOn(U1, Cardinality(Urls) + 1)

NoUrlTwice == \A i, j \in 1..Len(sent) : sent[i].url = sent[j].url => i = j

\* C8: when the server's chain of `next` links reaches a null `next`, the
\* loop returns after requesting each page of the chain exactly once; when
\* the links form a cycle of list-shaped 2xx pages, the loop never leaves
\* `while next_url:` (nothing detects the cycle).
C8_TerminatesUnlessCyclic ==
    /\ (Looping /\ EndingChain) ~>
          (pc = "returned" /\ Len(sent) = ChainLength(U1, Cardinality(Urls)))
    /\ [](Looping /\ EndingChain => NoUrlTwice)
    /\ [](Looping /\ CyclicChain => pc = "running")

\* A cycle being followed: some URL has been requested a second time.
C8_Witness ==
    /\ cmd = "request_all"
    /\ CyclicChain
    /\ pc = "running"
    /\ ~NoUrlTwice

(***************************************************************************)
(* The dump, seen from the wire log and the dump data.                     *)
(***************************************************************************)
\* The set of keys of a dict.
KeySet(d) == {d.items[i].k : i \in 1..Len(d.items)}

\* The keys of a dict, in insertion order.
KeySeq(d) == [i \in 1..Len(d.items) |-> d.items[i].k]

StrictlySorted(keys) ==
    \A i \in 1..Len(keys) : \A j \in 1..Len(keys) : i < j => StrLess(keys[i], keys[j])

\* The requests of the log that went to the given URLs.
SentTo(urls) == {i \in 1..Len(sent) : sent[i].url \in urls}

\* The URLs where the server keeps the pages of one endpoint.
EndpointUrls(app, endpoint) == {SrvEndpoint(app, endpoint), SrvPage2(app, endpoint)}

AllEndpointUrls ==
    UNION {EndpointUrls(S_core, e) : e \in {S_data_files, S_jobs, S_object_changes}}
    \cup EndpointUrls(S_dcim, S_sites)

\* The catalog root the run received, once it has one.
HasRoot == Len(sent) >= 2 /\ IsJson2xx(sent[2].resp) /\ IsDict(sent[2].resp.json)

RootSeen == sent[2].resp.json

\* The endpoint names the run received for an application: the keys of the
\* listing when the listing is an object, none otherwise.
ListedEndpoints(app) ==
    LET reqs == SentTo({Get(RootSeen, app).s}) IN
    UNION {IF IsJson2xx(sent[i].resp) /\ IsDict(sent[i].resp.json)
           THEN KeySet(sent[i].resp.json) ELSE {} : i \in reqs}

NoisyEndpoints == {<<"c", "o", "r", "e", "/", "j", "o", "b", "s">>, <<"c", "o", "r", "e", "/", "o", "b", "j", "e", "c", "t", "-", "c", "h", "a", "n", "g", "e", "s">>}

Completed == cmd = "dump" /\ dpc = "done"

\* C2: in the dump, a failure of any class while fetching an endpoint's pages
\* (a non-2xx response, a timeout, a connection failure, another transport
\* failure) stays with that endpoint: the process does not terminate, and the
\* endpoint's entry in the dump data is the ErrorResult of the failed response.
C2_EndpointFailureLocalized ==
    cmd = "dump" =>
        /\ \A i \in SentTo(AllEndpointUrls) :
               (i = Len(sent)
                /\ (IsHttpError(sent[i].resp) \/ IsTransportFailure(sent[i].resp)))
                   => pc \in {"running", "returned"}
        /\ \A app \in {S_core, S_dcim} :
           \A endpoint \in {S_data_files, S_jobs, S_object_changes, S_sites} :
           \A i \in SentTo(EndpointUrls(app, endpoint)) :
               (IsHttpError(sent[i].resp) /\ (i < Len(sent) \/ dpc # "endpoint"))
                   => /\ HasKey(dump, app)
                      /\ HasKey(Get(dump, app), endpoint)
                      /\ Get(Get(dump, app), endpoint) = ErrorResult(sent[i].resp)

\* C9: a dump that ran to completion holds one key per application of the
\* catalog root except `status`, and under each application one entry per
\* endpoint name of its listing, core/jobs and core/object-changes being left
\* out exactly when include_all is false; applications and endpoints are
\* entered, and their requests sent, in sorted order.
C9_DumpCoversCatalog ==
    /\ cmd = "dump" =>
          /\ StrictlySorted(KeySeq(dump))
          /\ \A a \in KeySet(dump) : StrictlySorted(KeySeq(Get(dump, a)))
    /\ Completed =>
          /\ HasRoot
          /\ KeySet(dump) = KeySet(RootSeen) \ {S_status}
          /\ \A a \in KeySet(dump) :
                /\ Cardinality(SentTo({Get(RootSeen, a).s})) = 1
                /\ KeySet(Get(dump, a)) =
                      {e \in ListedEndpoints(a) :
                          include_all \/ (a \o <<"/">> \o e) \notin NoisyEndpoints}
                /\ \A b \in KeySet(dump) :
                      StrLess(a, b) =>
                          \A i \in SentTo({Get(RootSeen, a).s}
                                          \cup UNION {EndpointUrls(a, e) : e \in KeySet(Get(dump, a))}) :
                          \A j \in SentTo({Get(RootSeen, b).s}) : i < j

C9_Witness ==
    /\ Completed /\ ~include_all
    /\ KeySeq(dump) = <<S_core, S_dcim>>
    /\ KeySeq(Get(dump, S_core)) = <<S_data_files>>
    /\ KeySeq(Get(dump, S_dcim)) = <<S_sites>>

Renderings(name) ==
    {pre \o name \o post :
        pre \in {<<>>, <<"/">>, S_api, <<"/">> \o S_api}, post \in {<<>>, <<"/">>}}

\* The command line got past load_config and the key=value parser.
PreambleOk ==
    /\ has_config
    /\ \A i \in 1..Len(args.param) : \E j \in 1..Len(args.param[i]) : args.param[i][j] = "="

AsksForConfig ==
    cmd = "get" /\ Join(args.path, " ") \in Renderings(<<"c", "l", "i", " ", "c", "o", "n", "f", "i", "g">>)

ConfigKeys ==
    {<<"n", "e", "t", "b", "o", "x", "_", "u", "r", "l">>, <<"t", "o", "k", "e", "n", "_", "p", "r", "e", "s", "e", "n", "t">>, <<"t", "o", "k", "e", "n", "_", "m", "a", "s", "k", "e", "d">>, <<"t", "i", "m", "e", "o", "u", "t">>, <<"i", "n", "s", "e", "c", "u", "r", "e">>, <<"f", "o", "r", "m", "a", "t">>}

\* C11: a get whose path words, joined by spaces, spell the configuration
\* pseudo-path sends no request at all; what it selects from and prints is a
\* locally built object of the connection settings.
C11_ConfigPathIsLocal ==
    (AsksForConfig /\ pc # "running") =>
        /\ sent = <<>>
        /\ PreambleOk =>
              /\ pc \in {"returned", "exited"}
              /\ (pc = "exited") = (args.select_path = PyStr(<<".", "h", "o", "s", "t", "n", "a", "m", "e">>))
              /\ args.select_path = PyNone =>
                    /\ IsDict(retval)
                    /\ {retval.items[i].k : i \in 1..Len(retval.items)} = ConfigKeys
                    /\ Get(retval, <<"n", "e", "t", "b", "o", "x", "_", "u", "r", "l">>) = PyStr(BaseUrl)
                    /\ Get(retval, <<"f", "o", "r", "m", "a", "t">>) = PyStr(<<fmt>>)
                    /\ Len(Get(retval, <<"t", "o", "k", "e", "n", "_", "m", "a", "s", "k", "e", "d">>).s) = Len(args.token)
                    /\ Len(rendered) = 1 /\ rendered[1].payload = retval
              /\ args.select_path = PyStr(<<".", "f", "o", "r", "m", "a", "t">>) =>
                    retval = PyStr(<<fmt>>)

C11_Witness ==
    /\ cmd = "get" /\ args.path = <<<<"/", "a", "p", "i", "/", "c", "l", "i">>, <<"c", "o", "n", "f", "i", "g", "/">>>>
    /\ pc = "returned" /\ sent = <<>> /\ IsDict(retval) /\ Len(rendered) = 1

(***************************************************************************)
(* Selection, stated over the selector's segments.                         *)
(***************************************************************************)
\* A dotted expression without its one optional leading ".".
Undotted(expr) == IF expr # <<>> /\ expr[1] = "." THEN Tail(expr) ELSE expr

\* The selector as typed, and the selector with the white space around it
\* trimmed.
Typed == args.select_path.s

Trimmed == Strip(args.select_path.s)

IdentitySelection(expr) == args.select_path = PyNone \/ Undotted(expr) = <<>>

Segments(expr) == Split(Undotted(expr), ".")

\* A segment that is a non-negative integer in decimal digits.
IsIndex(segment) ==
    /\ segment # <<>>
    /\ \A i \in 1..Len(segment) :
          segment[i] \in {"0", "1", "2", "3", "4", "5", "6", "7", "8", "9"}

Found(node) == [ok |-> TRUE, node |-> node]

NotFound == [ok |-> FALSE, node |-> PyNone]

\* The node one segment leads to: a key of an Object, an index of an Array,
\* nothing from any other node.
Step(node, segment) ==
    IF node.type = "dict"
    THEN IF HasKey(node, segment) THEN Found(Get(node, segment)) ELSE NotFound
    ELSE IF node.type = "list"
    THEN IF IsIndex(segment) /\ ToInt(segment) < Len(node.items)
         THEN Found(node.items[ToInt(segment) + 1])
         ELSE NotFound
    ELSE NotFound

\* The node the segments lead to from node, in order, up to the first that
\* leads nowhere.
RECURSIVE Reach(_, _)
Reach(node, segments) ==
    IF segments = <<>> THEN Found(node)
    ELSE IF ~Step(node, Head(segments)).ok THEN NotFound
    ELSE Reach(Step(node, Head(segments)).node, Tail(segments))

Selecting == cmd = "output_selected" /\ pc # "running"

\* What the claim says of a selector read as expr.
SelectsAlong(expr) ==
    Selecting =>
        IF IdentitySelection(expr)
        THEN pc = "returned" /\ retval = args.payload
        ELSE /\ pc = "returned" =>
                   /\ Reach(args.payload, Segments(expr)).ok
                   /\ retval = Reach(args.payload, Segments(expr)).node
             /\ Reach(args.payload, Segments(expr)).ok => pc = "returned"

\* C12 (as written): extract_path_value returns the payload unchanged when
\* the selector is null or empty after one optional leading "." is stripped;
\* otherwise it follows the dot-separated segments in order, a key on an
\* Object and an index on an Array, and returns the node reached.
C12_SelectsAlongTyped == SelectsAlong(Typed)

\* C12 (amended): the same, of the selector with the white space around it
\* trimmed first.
C12_SelectsAlongTrimmed == SelectsAlong(Trimmed)

C12_Witness ==
    /\ Selecting /\ pc = "returned"
    /\ args.select_path = PyStr(<<" ", ".", "a", ".", "1", ".", "b", " ">>)
    /\ HasKey(args.payload, <<"a">>) /\ retval = PyNone

\* C13: selection fails at the first segment that is a key absent from the
\* Object, not an index within the Array, or applied to a scalar or null; the
\* command then ends with exit code 2 and nothing on standard output.
C13_FailureExitsTwo ==
    (Selecting /\ ~IdentitySelection(Trimmed)
     /\ ~Reach(args.payload, Segments(Trimmed)).ok) =>
        /\ pc = "exited" /\ exit_code = 2
        /\ stdout = <<>> /\ rendered = <<>>

(***************************************************************************)
(* The key=value parser and the token mask.                                *)
(***************************************************************************)
\* The items of the command line: those of --param, then those of --filter.
GivenItems == args.param \o args.filter

WellFormed(item) == \E i \in 1..Len(item) : item[i] = "="

KeyOf(item) == SubSeq(item, 1, Find(item, "=") - 1)

ValueOf(item) == SubSeq(item, Find(item, "=") + 1, Len(item))

\* The values given for key, in input order.
ValuesFor(key) ==
    LET given == SelectSeq(GivenItems, LAMBDA item : KeyOf(item) = key)
    IN  [i \in 1..Len(given) |-> PyStr(ValueOf(given[i]))]

\* C14: the --param items followed by the --filter items, all of the form
\* key=value, give a ParamSet that maps each key to all the values given for
\* it in input order, a string when the key occurs once and a list when it
\* occurs more often; an item without "=" ends the process with exit code 2.
C14_ParamsAccumulate ==
    (cmd = "combine_kv_lists" /\ pc # "running") =>
        IF \A i \in 1..Len(GivenItems) : WellFormed(GivenItems[i])
        THEN /\ pc = "returned" /\ IsDict(retval)
             /\ {retval.items[i].k : i \in 1..Len(retval.items)}
                    = {KeyOf(GivenItems[i]) : i \in 1..Len(GivenItems)}
             /\ \A i \in 1..Len(retval.items) : \A j \in 1..Len(retval.items) :
                    retval.items[i].k = retval.items[j].k => i = j
             /\ \A i \in 1..Len(retval.items) :
                    LET values == ValuesFor(retval.items[i].k) IN
                    retval.items[i].v = IF Len(values) = 1 THEN values[1]
                                        ELSE PyList(values)
        ELSE pc = "exited" /\ exit_code = 2

C14_Witness ==
    /\ cmd = "combine_kv_lists" /\ pc = "returned"
    /\ args.param = <<<<"a", "=", "1">>, <<"a", "=", "2">>>>
    /\ args.filter = <<<<"b", "=", "3">>, <<"a", "=", "b", "=", "c">>>>
    /\ Get(retval, <<"a">>)
         = PyList(<<PyStr(<<"1">>), PyStr(<<"2">>), PyStr(<<"b", "=", "c">>)>>)

\* C16: for a non-empty token mask_token returns a string as long as the
\* token, every character "*" except the last four, which are kept when the
\* token is longer than four characters.
C16_MaskKeepsLastFour ==
    (cmd = "mask_token" /\ pc # "running" /\ args.token # <<>>) =>
        /\ pc = "returned" /\ retval.type = "str"
        /\ Len(retval.s) = Len(args.token)
        /\ \A i \in 1..Len(args.token) :
              retval.s[i] = IF Len(args.token) > 4 /\ i > Len(args.token) - 4
                            THEN args.token[i] ELSE "*"

C16_Witness ==
    /\ cmd = "mask_token" /\ pc = "returned"
    /\ args.token = <<"a", "b", "1", "a", "1", "b">>
    /\ retval = PyStr(<<"*", "*", "1", "a", "1", "b">>)

(***************************************************************************)
(* CSV rows, stated over the value that is rendered.                       *)
(***************************************************************************)
\* The leaves under node with the keys that lead to each: an Object's entries
\* are gone into, an Array is a leaf written as JSON text.
RECURSIVE Leaves(_, _)
Leaves(node, keys) ==
    IF node.type = "dict"
    THEN UNION {Leaves(node.items[i].v, Append(keys, node.items[i].k)) :
                    i \in 1..Len(node.items)}
    ELSE IF node.type = "list" THEN {<<keys, PyStr(JsonDumps(node))>>}
    ELSE {<<keys, node>>}

\* The key/value rows of an Object: one per leaf, under its dotted key.
DottedRows(object) ==
    {PyDict(<<KV(S_key, PyStr(Join(leaf[1], "."))), KV(S_value, leaf[2])>>) :
        leaf \in Leaves(object, <<>>)}

\* A row of the table stands for an element of the array: an Object under its
\* own keys (nested values as JSON text), anything else under `value`.
RowOf(row, element) ==
    IF element.type = "dict"
    THEN \A i \in 1..Len(element.items) :
            Get(row, element.items[i].k)
              = IF element.items[i].v.type \in {"dict", "list"}
                THEN PyStr(JsonDumps(element.items[i].v))
                ELSE element.items[i].v
    ELSE row = PyDict(<<KV(S_value, element)>>)

RowsAre(table, elements) ==
    /\ Len(table.rows) = Len(elements)
    /\ \A i \in 1..Len(elements) : RowOf(table.rows[i], elements[i])

\* The CSV document on stdout, an empty table when nothing was printed.
Printed ==
    IF rendered = <<>> THEN Table(<<>>, <<>>)
    ELSE Table(rendered[1].fieldnames, rendered[1].rows)

RendersCsv ==
    /\ cmd \in {"output_selected", "legacy_output_payload"}
    /\ pc = "returned" /\ fmt = "csv"

\* C15: CSV rows are (a) the `results` array of an Object that has one, (b)
\* else the Array itself, (c) else the Object flattened into dotted-key/value
\* pairs under exactly the columns `key` and `value`, (d) else the scalar as
\* one row under `value`; with zero rows nothing is printed, not even a
\* header.
C15_CsvRowPolicy ==
    RendersCsv =>
        /\ Len(rendered) <= 1
        /\ rendered # <<>> => rendered[1].rows # <<>>
        /\ IF retval.type = "dict" /\ Get(retval, K_results).type = "list"
           THEN RowsAre(Printed, Get(retval, K_results).items)
           ELSE IF retval.type = "list"
           THEN RowsAre(Printed, retval.items)
           ELSE IF retval.type = "dict"
           THEN /\ {Printed.rows[i] : i \in 1..Len(Printed.rows)} = DottedRows(retval)
                /\ Len(Printed.rows) = Cardinality(Leaves(retval, <<>>))
                /\ Printed.rows # <<>> => Printed.fieldnames = <<S_key, S_value>>
           ELSE /\ Printed.fieldnames = <<S_value>>
                /\ Printed.rows = <<PyDict(<<KV(S_value, retval)>>)>>

(***************************************************************************)
(* The status command next to get <status path>.                           *)
(***************************************************************************)
StatusRenderings ==
    {<<"s", "t", "a", "t", "u", "s">>, <<"/", "s", "t", "a", "t", "u", "s", "/">>, <<"a", "p", "i", "/", "s", "t", "a", "t", "u", "s">>, <<"/", "a", "p", "i", "/", "s", "t", "a", "t", "u", "s", "/">>}

AsksForStatus ==
    \/ cmd = "status"
    \/ cmd = "get" /\ Len(args.path) = 1 /\ args.path[1] \in StatusRenderings

\* C17: the status command, and get with any rendering of the status path,
\* each send exactly one GET, to the status URL with its trailing slash and
\* without query params, and on a 2xx JSON answer print that payload in the
\* chosen format and end with exit code 0.
C17_StatusAndGetStatusAgree ==
    (AsksForStatus /\ PreambleOk /\ args.select_path = PyNone /\ pc # "running") =>
        /\ Len(sent) = 1
        /\ sent[1].url = SrvStatus
        /\ sent[1].params = PyNone
        /\ IsJson2xx(sent[1].resp) =>
              /\ pc = "returned" /\ exit_code = 0
              /\ retval = sent[1].resp.json
              /\ fmt # "csv" =>
                    /\ Len(rendered) = 1
                    /\ rendered[1].format = fmt
                    /\ rendered[1].payload = sent[1].resp.json

(***************************************************************************)
(* The dump file.                                                          *)
(***************************************************************************)
\* The requests of the log that did not come back as 2xx JSON.
Unanswered == {i \in 1..Len(sent) : ~IsJson2xx(sent[i].resp)}

\* C18: the dump file is opened and written only after the status request,
\* the root request, every application listing and every endpoint
\* aggregation have completed; a dump that ends early, by exit or by an
\* exception, leaves the file untouched.
C18_FileOnlyAfterAllFetched ==
    cmd = "dump" =>
        /\ pc \in {"exited", "raised"} => file = NoFile
        /\ dpc # "done" => file = NoFile
        /\ file.written =>
              /\ pc = "returned" /\ exit_code = 0
              /\ Len(sent) >= 2
              /\ sent[1].url = SrvStatus /\ IsJson2xx(sent[1].resp)
              /\ sent[2].url = SrvApi /\ HasRoot
              /\ \A i \in 1..Len(sent) : ~IsTransportFailure(sent[i].resp)
              /\ \A i \in Unanswered : sent[i].url \in AllEndpointUrls
              /\ \A a \in KeySet(RootSeen) \ {S_status} :
                    /\ \E i \in SentTo({Get(RootSeen, a).s}) : IsJson2xx(sent[i].resp)
                    /\ HasKey(dump, a)
                    /\ \A e \in KeySet(Get(dump, a)) :
                          SentTo(EndpointUrls(a, e)) # {}
              /\ file.content.payload = DumpPayload

C18_Witness ==
    /\ cmd = "dump" /\ file.written /\ Len(sent) >= 6
    /\ \E i \in 1..Len(sent) : sent[i].url = SrvPage2(S_core, S_data_files)

=============================================================================
